---------------------------- MODULE Spec2Model ----------------------------
(***************************************************************************)
(* A model of Stover_postprocess.py, the notebook that post-processes      *)
(* county-scale DayCent results: unit conversion, annual SOC differences,  *)
(* aggregation over years, merge, pivot, treatment-relative columns and    *)
(* the choropleth helper fips_mapping.                                     *)
(*                                                                         *)
(* A data frame is a sequence of rows, a row a function from column names  *)
(* to values.  The notebook computes in float64; the model computes the    *)
(* same expressions, in the same association, over exact rationals, with   *)
(* the IEEE special values NaN, +inf and -inf kept as distinct values.     *)
(***************************************************************************)
EXTENDS Integers, Sequences, FiniteSets, TLC

-----------------------------------------------------------------------------
(* Numbers: n/d in lowest terms with d > 0; d = 0 encodes the specials.    *)

Abs(x) == IF x < 0 THEN -x ELSE x

RECURSIVE GCD(_, _)
GCD(a, b) == IF b = 0 THEN Abs(a) ELSE GCD(b, a % Abs(b))

NaN == [n |-> 0, d |-> 0]
PosInf == [n |-> 1, d |-> 0]
NegInf == [n |-> -1, d |-> 0]

IsNaN(x) == x.d = 0 /\ x.n = 0
IsFinite(x) == x.d > 0

\* The number p/q, q # 0, in lowest terms.
Frac(p, q) ==
    LET g == GCD(p, q)
        s == IF q < 0 THEN -1 ELSE 1
    IN  [n |-> s * (p \div g), d |-> s * (q \div g)]

Num(k) == [n |-> k, d |-> 1]

\* float addition and subtraction: NaN propagates.
RAdd(x, y) ==
    IF ~IsFinite(x) \/ ~IsFinite(y) THEN NaN
    ELSE LET g == GCD(x.d, y.d)
             l == (x.d \div g) * y.d
         IN  Frac(x.n * (l \div x.d) + y.n * (l \div y.d), l)

RNeg(x) == [n |-> -x.n, d |-> x.d]

RSub(x, y) == RAdd(x, RNeg(y))

\* float multiplication of finite numbers (cross-cancelled before multiplying).
RMul(x, y) ==
    IF ~IsFinite(x) \/ ~IsFinite(y) THEN NaN
    ELSE LET g1 == GCD(x.n, y.d)
             g2 == GCD(y.n, x.d)
         IN  IF x.n = 0 \/ y.n = 0 THEN Num(0)
             ELSE Frac((x.n \div g1) * (y.n \div g2), (x.d \div g2) * (y.d \div g1))

\* float division: x/0 is +-inf, 0/0 and NaN operands give NaN; nothing raises.
RDiv(x, y) ==
    IF ~IsFinite(x) \/ ~IsFinite(y) THEN NaN
    ELSE IF y.n = 0
         THEN (IF x.n = 0 THEN NaN ELSE IF x.n > 0 THEN PosInf ELSE NegInf)
         ELSE RMul(x, IF y.n > 0 THEN [n |-> y.d, d |-> y.n]
                                 ELSE [n |-> -y.d, d |-> -y.n])

\* x <= y for finite x, y, compared by continued fractions (no products).
RECURSIVE RLeq(_, _)
RLeq(x, y) ==
    LET qx == x.n \div x.d
        qy == y.n \div y.d
        rx == x.n % x.d
        ry == y.n % y.d
    IN  IF qx # qy THEN qx < qy
        ELSE IF rx = 0 THEN TRUE
        ELSE IF ry = 0 THEN FALSE
        ELSE RLeq([n |-> y.d, d |-> ry], [n |-> x.d, d |-> rx])

-----------------------------------------------------------------------------
(* constants.py *)

ha_per_ACRE == Frac(404686, 1000000)
kg_per_bu_CORN == Frac(254012, 10000)
kg_per_bu_SOY == Frac(272, 10)
g_m2_to_Mg_ha == Frac(1, 100)

\* The literal 0.001 of the yield conversions.
Milli == Frac(1, 1000)

-----------------------------------------------------------------------------
(* Data frames *)

Treatments == {"G", "G25S", "G50S", "G75S"}

\* Position of a treatment label in the lexicographic order of strings,
\* which is the order sort_values, groupby and pivot put the labels in.
TrtRank(t) ==
    CASE t = "G" -> 0 [] t = "G25S" -> 1 [] t = "G50S" -> 2 [] t = "G75S" -> 3

Key(r) == <<r["fips"], r["stover_removal"]>>

KeyLess(j, k) ==
    \/ j[1] < k[1]
    \/ j[1] = k[1] /\ TrtRank(j[2]) < TrtRank(k[2])

\* Row order of sort_values(["fips", "stover_removal", "simyear"]).
RowLess(r, s) ==
    \/ KeyLess(Key(r), Key(s))
    \/ Key(r) = Key(s) /\ r["simyear"] < s["simyear"]

RECURSIVE InsertRow(_, _)
InsertRow(r, s) ==
    IF s = <<>> THEN <<r>>
    ELSE IF ~RowLess(Head(s), r) THEN <<r>> \o s
    ELSE <<Head(s)>> \o InsertRow(r, Tail(s))

\* df.sort_values(["fips", "stover_removal", "simyear"]): a stable sort.
RECURSIVE SortValues(_)
SortValues(df) ==
    IF df = <<>> THEN <<>> ELSE InsertRow(Head(df), SortValues(Tail(df)))

\* df[dst] = df[src] * factor; df.drop(columns=[src])
Convert(df, src, dst, factor) ==
    [i \in 1..Len(df) |->
        [c \in (DOMAIN df[i] \ {src}) \cup {dst} |->
            IF c = dst THEN RMul(Num(df[i][src]), factor) ELSE df[i][c]]]

\* df[dst] = df[src].diff(): each row minus the row above it in the frame,
\* whatever that row's fips and stover_removal; NaN in the first row.
Diff(df, src, dst) ==
    [i \in 1..Len(df) |->
        [c \in DOMAIN df[i] \cup {dst} |->
            IF c = dst
            THEN (IF i = 1 THEN NaN ELSE RSub(df[i][src], df[i - 1][src]))
            ELSE df[i][c]]]

\* df[df["simyear"] != 2011]
DropFirstYear(df) == SelectSeq(df, LAMBDA r : r["simyear"] # 2011)

Keys(df) == {Key(df[i]) : i \in 1..Len(df)}

RECURSIVE SortedKeys(_)
SortedKeys(S) ==
    IF S = {} THEN <<>>
    ELSE LET k == CHOOSE j \in S : \A o \in S \ {j} : KeyLess(j, o)
         IN  <<k>> \o SortedKeys(S \ {k})

\* Sum and count of the non-missing col values of the rows of df with key k,
\* accumulated in row order.
RECURSIVE SumCount(_, _, _)
SumCount(df, k, col) ==
    IF df = <<>> THEN [sum |-> Num(0), cnt |-> 0]
    ELSE LET rest == SumCount(Tail(df), k, col)
             r == Head(df)
         IN  IF Key(r) = k /\ ~IsNaN(r[col])
             THEN [sum |-> RAdd(r[col], rest.sum), cnt |-> rest.cnt + 1]
             ELSE rest

\* The bug of summing where the mean is meant.
GroupSumMutant(df, k, col) ==
    LET sc == SumCount(df, k, col)
    IN  IF sc.cnt = 0 THEN NaN ELSE sc.sum

GroupMean(df, k, col) ==
    LET sc == SumCount(df, k, col)
    IN  IF sc.cnt = 0 THEN NaN ELSE RDiv(sc.sum, Num(sc.cnt))

\* df[["fips", "stover_removal", col]].groupby(["fips", "stover_removal"]).mean():
\* one row per key, keys sorted, the mean skipping missing values.
GroupByMean(df, col) ==
    LET ks == SortedKeys(Keys(df))
    IN  [i \in 1..Len(ks) |->
            [c \in {"fips", "stover_removal", col} |->
                IF c = "fips" THEN ks[i][1]
                ELSE IF c = "stover_removal" THEN ks[i][2]
                ELSE GroupMean(df, ks[i], col)]]

\* The bug of a left join: a left row with no match is kept.
RECURSIVE MergeLeftMutant(_, _)
MergeLeftMutant(left, right) ==
    IF left = <<>> THEN <<>>
    ELSE LET m == SelectSeq(right, LAMBDA r : Key(r) = Key(Head(left)))
         IN  (IF m = <<>> THEN <<Head(left)>>
              ELSE [i \in 1..Len(m) |-> Head(left) @@ m[i]])
             \o MergeLeftMutant(Tail(left), right)

\* pd.merge(left, right, on=['fips', 'stover_removal']): the default, inner join.
RECURSIVE Merge(_, _)
Merge(left, right) ==
    IF left = <<>> THEN <<>>
    ELSE LET m == SelectSeq(right, LAMBDA r : Key(r) = Key(Head(left)))
         IN  [i \in 1..Len(m) |-> Head(left) @@ m[i]] \o Merge(Tail(left), right)

ValueColumns ==
    {"corn_yield_Mg_ha-1", "soy_yield_Mg_ha-1", "stover_yield_Mg_ha-1",
     "dSOC_MgC_ha-1", "N2O_MgN_ha-1"}

RECURSIVE SortedInts(_)
SortedInts(S) ==
    IF S = {} THEN <<>>
    ELSE LET m == CHOOSE x \in S : \A y \in S : x <= y
         IN  <<m>> \o SortedInts(S \ {m})

HasDuplicateKeys(df) == \E i, j \in 1..Len(df) : i # j /\ Key(df[i]) = Key(df[j])

\* The bug of filling a cell from any row of its county.
PivotByFipsMutant(df) ==
    LET fs == {df[i]["fips"] : i \in 1..Len(df)}
        ts == {df[i]["stover_removal"] : i \in 1..Len(df)}
        cols == ValueColumns \X ts
    IN  [index |-> SortedInts(fs),
         columns |-> cols,
         data |-> [f \in fs |-> [c \in cols |->
                     LET i == CHOOSE j \in 1..Len(df) : df[j]["fips"] = f
                     IN  df[i][c[1]]]]]

\* df.pivot(index='fips', columns='stover_removal'): one row per fips, one
\* column per (value column, treatment occurring in df); a cell whose
\* (fips, treatment) is no row of df is missing (NaN).
Pivot(df) ==
    LET fs == {df[i]["fips"] : i \in 1..Len(df)}
        ts == {df[i]["stover_removal"] : i \in 1..Len(df)}
        cols == ValueColumns \X ts
    IN  [index |-> SortedInts(fs),
         columns |-> cols,
         data |-> [f \in fs |-> [c \in cols |->
                     IF <<f, c[2]>> \in Keys(df)
                     THEN (LET i == CHOOSE j \in 1..Len(df) : Key(df[j]) = <<f, c[2]>>
                           IN  df[i][c[1]])
                     ELSE NaN]]]

\* The bug of subtracting the wrong way round.
AddRelativeSwappedMutant(p, new, src, t) ==
    LET cols == p.columns \cup {<<new, "">>}
    IN  [p EXCEPT !.columns = cols,
                  !.data = [f \in DOMAIN p.data |-> [c \in cols |->
                               IF c = <<new, "">>
                               THEN RSub(p.data[f][<<src, "G">>], p.data[f][<<src, t>>])
                               ELSE p.data[f][c]]]]

\* pivoted_df[new] = pivoted_df[src][t] - pivoted_df[src]['G']
AddRelative(p, new, src, t) ==
    LET cols == p.columns \cup {<<new, "">>}
    IN  [p EXCEPT !.columns = cols,
                  !.data = [f \in DOMAIN p.data |-> [c \in cols |->
                               IF c = <<new, "">>
                               THEN RSub(p.data[f][<<src, t>>], p.data[f][<<src, "G">>])
                               ELSE p.data[f][c]]]]

\* pivoted_df['dSOC_MgStover'] =
\*     pivoted_df['dSOC_G25S_relative'] / pivoted_df['stover_yield_Mg_ha-1']['G25S']
AddRatio(p) ==
    LET cols == p.columns \cup {<<"dSOC_MgStover", "">>}
    IN  [p EXCEPT !.columns = cols,
                  !.data = [f \in DOMAIN p.data |-> [c \in cols |->
                               IF c = <<"dSOC_MgStover", "">>
                               THEN RDiv(p.data[f][<<"dSOC_G25S_relative", "">>],
                                         p.data[f][<<"stover_yield_Mg_ha-1", "G25S">>])
                               ELSE p.data[f][c]]]]

\* The six relative-difference statements, in the order the cell runs them.
RelativeStatements ==
    << <<"dSOC_G25S_relative", "dSOC_MgC_ha-1", "G25S">>,
       <<"dSOC_G50S_relative", "dSOC_MgC_ha-1", "G50S">>,
       <<"dSOC_G75S_relative", "dSOC_MgC_ha-1", "G75S">>,
       <<"dN2O_G25S_relative", "N2O_MgN_ha-1", "G25S">>,
       <<"dN2O_G50S_relative", "N2O_MgN_ha-1", "G50S">>,
       <<"dN2O_G75S_relative", "N2O_MgN_ha-1", "G75S">> >>

\* Runs the statements in order.  Selecting a column the pivoted frame does
\* not have raises KeyError, which ends the cell with the columns added so far.
RECURSIVE RunRelative(_, _)
RunRelative(p, stmts) ==
    IF stmts = <<>> THEN [frame |-> p, raised |-> FALSE]
    ELSE LET st == Head(stmts)
         IN  IF <<st[2], st[3]>> \in p.columns /\ <<st[2], "G">> \in p.columns
             THEN RunRelative(AddRelative(p, st[1], st[2], st[3]), Tail(stmts))
             ELSE [frame |-> p, raised |-> TRUE]

\* The bug of raising as soon as some county lacks the baseline.
DerivedColumnsStrictMutant(p) ==
    LET rel == RunRelative(p, RelativeStatements)
    IN  IF rel.raised THEN rel
        ELSE IF /\ <<"stover_yield_Mg_ha-1", "G25S">> \in rel.frame.columns
                /\ \A f \in DOMAIN p.data : ~IsNaN(p.data[f][<<"dSOC_MgC_ha-1", "G">>])
             THEN [frame |-> AddRatio(rel.frame), raised |-> FALSE]
             ELSE [frame |-> rel.frame, raised |-> TRUE]

DerivedColumns(p) ==
    LET rel == RunRelative(p, RelativeStatements)
    IN  IF rel.raised THEN rel
        ELSE IF <<"stover_yield_Mg_ha-1", "G25S">> \in rel.frame.columns
             THEN [frame |-> AddRatio(rel.frame), raised |-> FALSE]
             ELSE [frame |-> rel.frame, raised |-> TRUE]

-----------------------------------------------------------------------------
(* fips_mapping *)

RLess(x, y) == ~RLeq(y, x)

\* np.linspace(start, stop, num)
Linspace(start, stop, num) ==
    [i \in 1..num |->
        IF num = 1 THEN start
        ELSE RAdd(start, RMul(Frac(i - 1, num - 1), RSub(stop, start)))]

Reverse(s) == [i \in 1..Len(s) |-> s[Len(s) + 1 - i]]

\* The bug of <= for <.
RoundingLeqMutant(linspacing) == IF RLeq(linspacing[2], Num(10)) THEN FALSE ELSE TRUE

\* rounding = True; if linspacing[1] < 10: rounding = False
Rounding(linspacing) == IF RLess(linspacing[2], Num(10)) THEN FALSE ELSE TRUE

\* The colours of the divergent scale, each named by its position in [0, 1]
\* on the 'RdBu' colour map; <<>> when the renderer's default scale is used.
Colorscale(linspacing, divergent, reverse) ==
    IF divergent
    THEN (LET cmap == Linspace(Num(0), Num(1), linspacing[3] + 1)
          IN  IF reverse THEN Reverse(cmap) ELSE cmap)
    ELSE <<>>

scope ==
    <<"ND", "SD", "NE", "KS", "MO", "IA", "MN", "WI", "IL", "KY", "IN", "MI", "OH",
      "PA", "WV", "MD", "DE", "NY", "TN", "AR", "OK", "VA", "NC">>

\* The arguments fips_mapping hands to ff.create_choropleth.
FipsMapping(fips, data, title, legend_title, linspacing, divergent, reverse) ==
    [fips |-> fips,
     values |-> data,
     scope |-> scope,
     binning_endpoints |-> Linspace(linspacing[1], linspacing[2], linspacing[3]),
     round_legend_values |-> Rounding(linspacing),
     colorscale |-> Colorscale(linspacing, divergent, reverse),
     state_outline |-> divergent,
     legend_title |-> legend_title,
     title |-> title]

-----------------------------------------------------------------------------
(* The notebook's state: its data frames, the figures shown so far, and the  *)
(* cell about to run.                                                        *)

VARIABLES
    pc,          \* the cell about to run, "done", or "error" after a raise
    csv,         \* the six .csv files, as read_csv returns them
    calls,       \* the fips_mapping calls of the mapping cells, in order
    area_df, corn_df, soy_df, stover_df, soc_df, n2o_df,
    agg_in,      \* the five frames as they were handed to groupby
    df,          \* the merged frame
    pivoted_df,
    err,         \* the exception that ended the run, "" if none
    figs         \* the figures handed to iplot, in order

vars == <<pc, csv, calls, area_df, corn_df, soy_df, stover_df, soc_df, n2o_df,
          agg_in, df, pivoted_df, err, figs>>

TableNames == {"corn", "soy", "stover", "soc", "n2o"}

\* The raw value column of each file and the converted column of each frame.
RawColumn(tbl) ==
    CASE tbl = "corn" -> "grainyield_bu_ac"
      [] tbl = "soy" -> "grainyield_bu_ac"
      [] tbl = "stover" -> "stover_dryyield_kgha"
      [] tbl = "soc" -> "SOC_20cm_g_m2"
      [] tbl = "n2o" -> "N2O_gN_m2"

ValueColumn(tbl) ==
    CASE tbl = "corn" -> "corn_yield_Mg_ha-1"
      [] tbl = "soy" -> "soy_yield_Mg_ha-1"
      [] tbl = "stover" -> "stover_yield_Mg_ha-1"
      [] tbl = "soc" -> "SOC_MgC_ha-1"
      [] tbl = "n2o" -> "N2O_MgN_ha-1"

\* The column each frame is averaged on.
MeanColumn(tbl) == IF tbl = "soc" THEN "dSOC_MgC_ha-1" ELSE ValueColumn(tbl)

-----------------------------------------------------------------------------
(* Input files.  Every file keeps (fips, stover_removal, simyear) unique.   *)

MaxDrop == 2
MaxExtra == 2

BaseFips == {19001, 19003}
BaseYears == {2011, 2012}
BaseKeys == BaseFips \X Treatments

ExtraFips == {19000, 19001}
ExtraTreatments == {"G", "G25S"}
ExtraYears == {2011, 2012, 2013}
ExtraValues == {15}

RawRow(tbl, f, t, y, v) ==
    [c \in {"fips", "stover_removal", "simyear", RawColumn(tbl)} |->
        IF c = "fips" THEN f
        ELSE IF c = "stover_removal" THEN t
        ELSE IF c = "simyear" THEN y
        ELSE v]

\* The raw values of the base files: different for every file, county,
\* treatment and year.
BaseValue(tbl, f, t, y) ==
    LET fi == (f - 19001) \div 2
        r == TrtRank(t)
        dy == y - 2011
    IN  CASE tbl = "corn" -> 150 + 4 * fi - 2 * r + 6 * dy
          [] tbl = "soy" -> 50 + 3 * fi - r + 2 * dy
          [] tbl = "stover" -> 1000 * r + 100 * fi * r + 70 * dy * r
          [] tbl = "soc" -> 10 + 20 * r + 100 * fi + (2 - r - 3 * fi) * dy
          [] tbl = "n2o" -> 3 + r + 2 * fi + (1 + r) * dy

\* A complete file: every base county, treatment and year, sorted.
BaseTable(tbl) ==
    LET ks == SortedKeys(BaseKeys)
        ys == SortedInts(BaseYears)
        ny == Len(ys)
    IN  [i \in 1..(Len(ks) * ny) |->
            LET k == ks[((i - 1) \div ny) + 1]
                y == ys[((i - 1) % ny) + 1]
            IN  RawRow(tbl, k[1], k[2], y, BaseValue(tbl, k[1], k[2], y))]

BaseArea == << [fips |-> 19001, area_acres |-> 100], [fips |-> 19003, area_acres |-> 250] >>

BaseCsv ==
    [area |-> BaseArea, corn |-> BaseTable("corn"), soy |-> BaseTable("soy"),
     stover |-> BaseTable("stover"), soc |-> BaseTable("soc"), n2o |-> BaseTable("n2o")]

\* The two calls of the notebook's last cells.
NotebookCalls ==
    << [column |-> <<"stover_yield_Mg_ha-1", "G25S">>,
        title |-> "Stover yield @ 25% removal rate", legend_title |-> "(Mg ha-1)",
        linspacing |-> <<Num(2), Num(4), 21>>, divergent |-> FALSE, reverse |-> FALSE],
       [column |-> <<"dSOC_MgStover", "">>,
        title |-> "SOC penalty per mass of stover harvested",
        legend_title |-> "(Mg C (Mg biomass)-1)",
        linspacing |-> <<Frac(-5, 100), Frac(5, 100), 41>>,
        divergent |-> TRUE, reverse |-> FALSE] >>

Triple(r) == <<r["fips"], r["stover_removal"], r["simyear"]>>

UniqueTriples(t) == \A i, j \in 1..Len(t) : i # j => Triple(t[i]) # Triple(t[j])

\* Inputs 1: one file lacks every row of up to MaxDrop (fips, stover_removal) keys.
DropInputs ==
    {[csv |-> [BaseCsv EXCEPT ![tbl] =
                  SelectSeq(BaseCsv[tbl], LAMBDA r : Key(r) \notin D)],
      calls |-> NotebookCalls] :
        tbl \in TableNames, D \in {E \in SUBSET BaseKeys : Cardinality(E) <= MaxDrop}}

ExtraRows(tbl) ==
    {RawRow(tbl, f, t, y, v) :
        f \in ExtraFips, t \in ExtraTreatments, y \in ExtraYears, v \in ExtraValues}

ExtraSeqs(tbl) ==
    UNION {{x \in [1..n -> ExtraRows(tbl)] : UniqueTriples(BaseCsv[tbl] \o x)} :
              n \in 0..MaxExtra}

Placed(base, x, order) ==
    CASE order = "extras_first" -> x \o base
      [] order = "reversed" -> Reverse(base \o x)

\* Inputs 2: one file has up to MaxExtra more rows, in either of two row orders.
ExtraInputs ==
    {[csv |-> [BaseCsv EXCEPT ![in[1]] = Placed(BaseCsv[in[1]], in[2], order)],
      calls |-> NotebookCalls] :
        in \in UNION {{tbl} \X ExtraSeqs(tbl) : tbl \in TableNames},
        order \in {"extras_first", "reversed"}}

\* Inputs 3: the corn yields of county 19001, treatment G are those of the
\* years 2012-2015, [150, 160, 155, 158] bu/acre.
ScenarioYields == <<150, 160, 155, 158>>

ScenarioCorn ==
    [i \in 1..4 |-> RawRow("corn", 19001, "G", 2011 + i, ScenarioYields[i])]
    \o SelectSeq(BaseCsv["corn"], LAMBDA r : Key(r) # <<19001, "G">>)

ScenarioInput == [csv |-> [BaseCsv EXCEPT !["corn"] = ScenarioCorn], calls |-> NotebookCalls]

\* Inputs 4: the mapping cell calls fips_mapping with other arguments.
CallSet ==
    {[column |-> <<"stover_yield_Mg_ha-1", "G25S">>, title |-> "t", legend_title |-> "l",
      linspacing |-> <<lo, hi, num>>, divergent |-> dv, reverse |-> rv] :
        lo \in {Frac(-5, 100), Num(2)},
        hi \in {Frac(5, 100), Num(4), Frac(999, 100), Num(10), Num(12)},
        num \in {21, 41}, dv \in BOOLEAN, rv \in BOOLEAN}

CallInputs == {[csv |-> BaseCsv, calls |-> <<c>>] : c \in CallSet}

Inputs == DropInputs \cup ExtraInputs \cup {ScenarioInput} \cup CallInputs

EmptyFrame == [index |-> <<>>, columns |-> {}, data |-> <<>>]

Init ==
    \E in \in Inputs :
        /\ csv = in.csv
        /\ calls = in.calls
        /\ area_df = in.csv["area"]
        /\ corn_df = in.csv["corn"]
        /\ soy_df = in.csv["soy"]
        /\ stover_df = in.csv["stover"]
        /\ soc_df = in.csv["soc"]
        /\ n2o_df = in.csv["n2o"]
        /\ agg_in = <<>>
        /\ df = <<>>
        /\ pivoted_df = EmptyFrame
        /\ err = ""
        /\ figs = <<>>
        /\ pc = "unit_conversions"

-----------------------------------------------------------------------------
(* The cells *)

AreaConversion(a) ==
    [i \in 1..Len(a) |->
        [fips |-> a[i]["fips"], area_ha |-> RMul(Num(a[i]["area_acres"]), ha_per_ACRE)]]

\* The bug of converting corn with the soybean bushel weight.
CornFactorSoyMutant == RDiv(RMul(kg_per_bu_SOY, Milli), ha_per_ACRE)

CornFactor == RDiv(RMul(kg_per_bu_CORN, Milli), ha_per_ACRE)
SoyFactor == RDiv(RMul(kg_per_bu_SOY, Milli), ha_per_ACRE)

UnitConversions ==
    /\ pc = "unit_conversions"
    /\ area_df' = AreaConversion(area_df)
    /\ corn_df' = Convert(corn_df, "grainyield_bu_ac", "corn_yield_Mg_ha-1", CornFactor)
    /\ soy_df' = Convert(soy_df, "grainyield_bu_ac", "soy_yield_Mg_ha-1", SoyFactor)
    /\ stover_df' = Convert(stover_df, "stover_dryyield_kgha", "stover_yield_Mg_ha-1", Milli)
    /\ soc_df' = Convert(soc_df, "SOC_20cm_g_m2", "SOC_MgC_ha-1", g_m2_to_Mg_ha)
    /\ n2o_df' = Convert(n2o_df, "N2O_gN_m2", "N2O_MgN_ha-1", g_m2_to_Mg_ha)
    /\ pc' = "soc_differences"
    /\ UNCHANGED <<csv, calls, agg_in, df, pivoted_df, err, figs>>

SOCDifferences(soc) ==
    DropFirstYear(Diff(SortValues(soc), "SOC_MgC_ha-1", "dSOC_MgC_ha-1"))

AnnualSOCDifferences ==
    /\ pc = "soc_differences"
    /\ soc_df' = SOCDifferences(soc_df)
    /\ pc' = "aggregation_merges"
    /\ UNCHANGED <<csv, calls, area_df, corn_df, soy_df, stover_df, n2o_df,
                   agg_in, df, pivoted_df, err, figs>>

MergeAll(corn, soy, stover, soc, n2o) ==
    Merge(Merge(Merge(Merge(corn, soy), stover), soc), n2o)

AggregationAndMerges ==
    /\ pc = "aggregation_merges"
    /\ agg_in' = [corn |-> corn_df, soy |-> soy_df, stover |-> stover_df,
                  soc |-> soc_df, n2o |-> n2o_df]
    /\ corn_df' = GroupByMean(corn_df, "corn_yield_Mg_ha-1")
    /\ soy_df' = GroupByMean(soy_df, "soy_yield_Mg_ha-1")
    /\ stover_df' = GroupByMean(stover_df, "stover_yield_Mg_ha-1")
    /\ soc_df' = GroupByMean(soc_df, "dSOC_MgC_ha-1")
    /\ n2o_df' = GroupByMean(n2o_df, "N2O_MgN_ha-1")
    /\ df' = MergeAll(corn_df', soy_df', stover_df', soc_df', n2o_df')
    /\ pc' = "pivot"
    /\ UNCHANGED <<csv, calls, area_df, pivoted_df, err, figs>>

PivotCell ==
    /\ pc = "pivot"
    /\ IF HasDuplicateKeys(df)
       THEN pc' = "error" /\ err' = "ValueError" /\ UNCHANGED pivoted_df
       ELSE pc' = "derived_columns" /\ pivoted_df' = Pivot(df) /\ UNCHANGED err
    /\ UNCHANGED <<csv, calls, area_df, corn_df, soy_df, stover_df, soc_df, n2o_df,
                   agg_in, df, figs>>

DerivedColumnsCell ==
    /\ pc = "derived_columns"
    /\ LET res == DerivedColumns(pivoted_df)
       IN  /\ pivoted_df' = res.frame
           /\ IF res.raised
              THEN pc' = "error" /\ err' = "KeyError"
              ELSE pc' = "mapping" /\ UNCHANGED err
    /\ UNCHANGED <<csv, calls, area_df, corn_df, soy_df, stover_df, soc_df, n2o_df,
                   agg_in, df, figs>>

ColumnValues(p, c) == [i \in 1..Len(p.index) |-> p.data[p.index[i]][c]]

MappingCell ==
    /\ pc = "mapping"
    /\ Len(figs) < Len(calls)
    /\ LET call == calls[Len(figs) + 1]
       IN  IF call.column \in pivoted_df.columns
           THEN /\ figs' = Append(figs,
                       FipsMapping(pivoted_df.index, ColumnValues(pivoted_df, call.column),
                                   call.title, call.legend_title, call.linspacing,
                                   call.divergent, call.reverse))
                /\ UNCHANGED <<pc, err>>
           ELSE pc' = "error" /\ err' = "KeyError" /\ UNCHANGED figs
    /\ UNCHANGED <<csv, calls, area_df, corn_df, soy_df, stover_df, soc_df, n2o_df,
                   agg_in, df, pivoted_df>>

Next ==
    \/ UnitConversions
    \/ AnnualSOCDifferences
    \/ AggregationAndMerges
    \/ PivotCell
    \/ DerivedColumnsCell
    \/ MappingCell

Spec == Init /\ [][Next]_vars

-----------------------------------------------------------------------------
(* Properties *)

Range(q) == {q[i] : i \in DOMAIN q}

RowsOf(t, k) == {r \in Range(t) : Key(r) = k}

\* The row of an aggregated (one row per key) frame t with key k.
RowAt(t, k) == CHOOSE r \in Range(t) : Key(r) = k

RECURSIVE SetSum(_, _)
SetSum(S, col) ==
    IF S = {} THEN Num(0)
    ELSE LET r == CHOOSE x \in S : TRUE
         IN  RAdd(r[col], SetSum(S \ {r}, col))

\* The arithmetic mean of column col over a set of rows, over the rows that
\* have a value; missing if none has.
SetMean(S, col) ==
    LET V == {r \in S : ~IsNaN(r[col])}
    IN  IF V = {} THEN NaN ELSE RDiv(SetSum(V, col), Num(Cardinality(V)))

Aggregated(tbl) ==
    CASE tbl = "corn" -> corn_df
      [] tbl = "soy" -> soy_df
      [] tbl = "stover" -> stover_df
      [] tbl = "soc" -> soc_df
      [] tbl = "n2o" -> n2o_df

\* The aggregation and merge cell has run.
Merged == pc \in {"pivot", "derived_columns", "mapping", "error"}

\* The converted soil-carbon frame the differencing cell is given.
SocInput == Convert(csv["soc"], "SOC_20cm_g_m2", "SOC_MgC_ha-1", g_m2_to_Mg_ha)

\* The rows of the same (fips, stover_removal) group that precede r in time.
Earlier(t, r) == {q \in RowsOf(t, Key(r)) : q["simyear"] < r["simyear"]}

Preceding(t, r) ==
    CHOOSE q \in Earlier(t, r) : \A o \in Earlier(t, r) : o["simyear"] <= q["simyear"]

\* C1: after the differencing cell, every row left in soc_df carries its own
\* value minus the value of the row just before it in its own
\* (fips, stover_removal) group; none is computed from another group's row.
C1_DifferenceWithinGroup ==
    pc = "aggregation_merges" =>
        \A r \in Range(soc_df) :
            /\ Earlier(SocInput, r) # {}
            /\ r["dSOC_MgC_ha-1"] =
                   RSub(r["SOC_MgC_ha-1"], Preceding(SocInput, r)["SOC_MgC_ha-1"])

\* C2: a (fips, stover_removal) group with exactly one year of soil-carbon
\* data has no row in the differenced frame, whatever that year is.
C2_SingleYearGroupDropped ==
    pc = "aggregation_merges" =>
        \A k \in Keys(csv["soc"]) :
            Cardinality(RowsOf(csv["soc"], k)) = 1 => RowsOf(soc_df, k) = {}

\* C3: the merged frame has exactly the keys common to the five aggregated
\* frames, one row each, carrying the five aggregated values; dropping the
\* other keys raises nothing.
C3_MergeIsInnerJoin ==
    Merged =>
        /\ Keys(df) = Keys(corn_df) \cap Keys(soy_df) \cap Keys(stover_df)
                          \cap Keys(soc_df) \cap Keys(n2o_df)
        /\ ~HasDuplicateKeys(df)
        /\ \A r \in Range(df) : \A tbl \in TableNames :
               r[MeanColumn(tbl)] = RowAt(Aggregated(tbl), Key(r))[MeanColumn(tbl)]
        /\ pc = "pivot" => err = ""

TablesHolding(k) == {tbl \in TableNames : k \in Keys(Aggregated(tbl))}

C3_Witness ==
    /\ pc = "pivot"
    /\ df # <<>>
    /\ \E k \in BaseKeys : Cardinality(TablesHolding(k)) = 4 /\ k \notin Keys(df)

\* C4: each aggregated frame has one row per (fips, stover_removal) of its
\* input, holding the arithmetic mean of that pair's input values, years
\* ignored; the means do not depend on the order of the input rows.
C4_GroupMeans ==
    pc = "pivot" =>
        \A tbl \in TableNames :
            LET in == agg_in[tbl]
                out == Aggregated(tbl)
                col == MeanColumn(tbl)
            IN  /\ Keys(out) = Keys(in)
                /\ Len(out) = Cardinality(Keys(in))
                /\ \A r \in Range(out) : r[col] = SetMean(RowsOf(in, Key(r)), col)
                /\ GroupByMean(Reverse(in), col) = out

C4_Witness ==
    /\ pc = "pivot"
    /\ \E tbl \in TableNames :
           /\ agg_in[tbl] # SortValues(agg_in[tbl])
           /\ \E k \in Keys(agg_in[tbl]) : Cardinality(RowsOf(agg_in[tbl], k)) = 3
           /\ \E j, k \in Keys(agg_in[tbl]) :
                  Cardinality(RowsOf(agg_in[tbl], j)) # Cardinality(RowsOf(agg_in[tbl], k))

YieldTables == {"corn", "soy", "stover"}

Converted(tbl) ==
    CASE tbl = "corn" -> Convert(csv["corn"], "grainyield_bu_ac", "corn_yield_Mg_ha-1", CornFactor)
      [] tbl = "soy" -> Convert(csv["soy"], "grainyield_bu_ac", "soy_yield_Mg_ha-1", SoyFactor)
      [] tbl = "stover" ->
             Convert(csv["stover"], "stover_dryyield_kgha", "stover_yield_Mg_ha-1", Milli)

\* C5: the yields of year 2011 are dropped on merge: every yield of the
\* merged frame is the mean of its key's yields of the other years.
C5_NoYear2011Yields ==
    Merged =>
        \A r \in Range(df) : \A tbl \in YieldTables :
            r[ValueColumn(tbl)] =
                SetMean({q \in RowsOf(Converted(tbl), Key(r)) : q["simyear"] # 2011},
                        ValueColumn(tbl))

NonBaseline == {"G25S", "G50S", "G75S"}

Metrics == {"dSOC", "dN2O"}

\* The metric's aggregated frame and column, and its relative column for t.
MetricFrame(m) == IF m = "dSOC" THEN soc_df ELSE n2o_df

MetricColumn(m) == IF m = "dSOC" THEN "dSOC_MgC_ha-1" ELSE "N2O_MgN_ha-1"

RelativeColumn(m, t) ==
    CASE m = "dSOC" /\ t = "G25S" -> <<"dSOC_G25S_relative", "">>
      [] m = "dSOC" /\ t = "G50S" -> <<"dSOC_G50S_relative", "">>
      [] m = "dSOC" /\ t = "G75S" -> <<"dSOC_G75S_relative", "">>
      [] m = "dN2O" /\ t = "G25S" -> <<"dN2O_G25S_relative", "">>
      [] m = "dN2O" /\ t = "G50S" -> <<"dN2O_G50S_relative", "">>
      [] m = "dN2O" /\ t = "G75S" -> <<"dN2O_G75S_relative", "">>

RatioColumn == <<"dSOC_MgStover", "">>

DerivedColumnNames == {RelativeColumn(m, t) : m \in Metrics, t \in NonBaseline} \cup {RatioColumn}

AggValue(m, k) == RowAt(MetricFrame(m), k)[MetricColumn(m)]

\* The relative value of metric m at county f, treatment t, from the
\* aggregated frames.
AggRelative(m, f, t) == RSub(AggValue(m, <<f, t>>), AggValue(m, <<f, "G">>))

ComputedNormally(f) ==
    /\ \A m \in Metrics : \A t \in NonBaseline :
           <<f, t>> \in Keys(df) =>
               pivoted_df.data[f][RelativeColumn(m, t)] = AggRelative(m, f, t)
    /\ <<f, "G25S">> \in Keys(df) =>
           pivoted_df.data[f][RatioColumn] =
               RDiv(AggRelative("dSOC", f, "G25S"),
                    RowAt(stover_df, <<f, "G25S">>)["stover_yield_Mg_ha-1"])

\* C6: in the pivoted frame every relative column holds, for every county,
\* the aggregated value at its treatment minus the aggregated value at G of
\* the same county and metric, and dSOC_MgStover holds the soil-carbon
\* relative value at G25S divided by the stover yield at G25S.
C6_DerivedColumns ==
    pc = "mapping" =>
        /\ DerivedColumnNames \subseteq pivoted_df.columns
        /\ \A f \in DOMAIN pivoted_df.data :
               <<f, "G">> \in Keys(df) => ComputedNormally(f)

C6_Witness ==
    /\ pc = "mapping"
    /\ \E f \in DOMAIN pivoted_df.data :
           /\ \A t \in Treatments : <<f, t>> \in Keys(df)
           /\ \A m \in Metrics : \A t \in NonBaseline :
                  LET x == pivoted_df.data[f][RelativeColumn(m, t)]
                  IN  IsFinite(x) /\ x.n # 0
           /\ LET x == pivoted_df.data[f][RatioColumn] IN IsFinite(x) /\ x.n # 0

\* The derived-columns cell has run, to its end or to a raise.
DerivedRan == pc = "mapping" \/ (pc = "error" /\ err = "KeyError")

MergedFips == {k[1] : k \in Keys(df)}

MergedTreatments == {k[2] : k \in Keys(df)}

LacksBaseline(f) == f \in MergedFips /\ <<f, "G">> \notin Keys(df)

\* C7 as claimed: whenever G is absent from the merged frame for one, several
\* or all of its counties, nothing raises, those counties' derived columns
\* are missing and the other counties' are computed normally.
C7_MissingBaselineNeverRaises ==
    (DerivedRan /\ \E f \in MergedFips : LacksBaseline(f)) =>
        /\ pc = "mapping"
        /\ \A f \in MergedFips :
               IF LacksBaseline(f)
               THEN \A c \in DerivedColumnNames : IsNaN(pivoted_df.data[f][c])
               ELSE ComputedNormally(f)

\* C7 amended: the same, provided each of the four treatments occurs in the
\* merged frame for at least one county; when G occurs for none, the
\* derived-columns cell raises KeyError.
C7_MissingBaseline ==
    DerivedRan =>
        /\ Treatments \subseteq MergedTreatments =>
               /\ pc = "mapping"
               /\ err = ""
               /\ \A f \in MergedFips :
                      IF LacksBaseline(f)
                      THEN \A c \in DerivedColumnNames : IsNaN(pivoted_df.data[f][c])
                      ELSE ComputedNormally(f)
        /\ "G" \notin MergedTreatments => pc = "error" /\ err = "KeyError"

C7_Witness ==
    /\ pc = "mapping"
    /\ \E f, g \in MergedFips :
           /\ LacksBaseline(f)
           /\ <<f, "G25S">> \in Keys(df)
           /\ \A t \in Treatments : <<g, t>> \in Keys(df)

\* C8: fips_mapping asks for rounded legend values exactly when the max of
\* its linspacing is at least 10, whatever min, bin count, divergent and
\* reverse are.
C8_RoundingRule ==
    \A i \in 1..Len(figs) :
        LET hi == calls[i].linspacing[2]
        IN  figs[i].round_legend_values <=> (hi.n >= 10 * hi.d)

C8_Witness ==
    /\ Len(figs) = 1
    /\ calls[1].linspacing[2] = Num(10)
    /\ calls[1].linspacing[1] = Frac(-5, 100)
    /\ calls[1].divergent /\ calls[1].reverse
    /\ figs[1].round_legend_values

\* The corn file holds, for county 19001 and treatment G, exactly the yields
\* [150, 160, 155, 158] bu/acre of the years 2012-2015.
ScenarioLoaded ==
    {<<r["simyear"], r["grainyield_bu_ac"]>> : r \in RowsOf(csv["corn"], <<19001, "G">>)}
        = {<<2012, 150>>, <<2013, 160>>, <<2014, 155>>, <<2015, 158>>}

ScenarioMean == RowAt(corn_df, <<19001, "G">>)["corn_yield_Mg_ha-1"]

Within(x, centre, tol) == RLeq(RSub(centre, tol), x) /\ RLeq(x, RAdd(centre, tol))

\* C9 as claimed: in the scenario the aggregated corn yield of 19001/G lies
\* within 9.99 +/- 0.01 Mg/ha.
C9_ScenarioMeanNear999 ==
    (ScenarioLoaded /\ Merged) => Within(ScenarioMean, Frac(999, 100), Frac(1, 100))

\* C9 amended: in the scenario the aggregated corn yield of 19001/G is
\* mean(yields) x (25.4012 x 0.001 / 0.404686), which lies within
\* 9.78 +/- 0.01 Mg/ha.
C9_ScenarioMeanNear978 ==
    (ScenarioLoaded /\ Merged) => Within(ScenarioMean, Frac(978, 100), Frac(1, 100))

C9_Witness == ScenarioLoaded /\ pc = "pivot" /\ <<19001, "G">> \in Keys(corn_df)

\* The (fips, stover_removal, value column, value) entries of the merged frame.
Entries(d) ==
    {<<r["fips"], r["stover_removal"], c, r[c]>> : r \in Range(d), c \in ValueColumns}

\* Un-pivoting, as pandas melt does it: one entry per cell of the wide frame,
\* the missing cells included.
Melt(p) ==
    {<<f, c[2], c[1], p.data[f][c]>> :
        f \in DOMAIN p.data, c \in {x \in p.columns : x[1] \in ValueColumns}}

Padding ==
    {<<k[1], k[2], c, NaN>> :
        k \in (MergedFips \X MergedTreatments) \ Keys(df), c \in ValueColumns}

=============================================================================
